---- MODULE Spec2Model ----
(***************************************************************************)
(* Metadata reconciliation of brick_repos/<brick>/meta.yaml as done by     *)
(* scripts/Enrich_Meta_Gpt.py, scripts/auto_meta.py,                        *)
(* scripts/add_meta_stub.py and scripts/update_brick_docs.py.               *)
(*                                                                         *)
(* Python values are encoded as records with one field naming the type:    *)
(*   [str   |-> <<c1, ..., cn>>]   a str, as its sequence of characters    *)
(*   [list  |-> <<v1, ..., vn>>]   a list of values                        *)
(*   [dict  |-> <<[k |-> key, v |-> value], ...>>]  a dict, in insertion   *)
(*                                 order (keys are atomic strings)         *)
(*   [other |-> "None" | "False" | "True" | "0" | "1"]  any other scalar   *)
(***************************************************************************)
EXTENDS Integers, Sequences, FiniteSets, TLC

VARIABLES
    pc,      \* position of the pure-function harnesses: "call" or "done"
    arg,     \* the argument handed to the function under test
    ret,     \* the value it returned
    file,    \* contents of brick_repos/<brick>/meta.yaml, or NoFile
    env,     \* what the providers answer for this brick (fixed during a run)
    pass,    \* the last pass over the brick: script, mode, outcome
    before,  \* contents of meta.yaml when the last pass started
    batch    \* a run of main over several bricks: the bricks and the loop's position

vars == <<pc, arg, ret, file, env, pass, before, batch>>

(***************************************************************************)
(* Bounds of the model                                                      *)
(***************************************************************************)
MaxStrLen == 5      \* longest enumerated string handed to is_stub
MaxKeys == 1        \* non-asset keys populated in the record and the fragment
MaxEntries == 4     \* asset entries handed to merge_assets, over all its lists
MaxSources == 3     \* asset lists handed to merge_assets
MaxBatch == 2       \* bricks in one run of main

(***************************************************************************)
(* Python values                                                            *)
(***************************************************************************)
Str(s) == [str |-> s]
List(l) == [list |-> l]
Dict(d) == [dict |-> d]
PyNone == [other |-> "None"]
PyFalse == [other |-> "False"]
PyTrue == [other |-> "True"]
PyZero == [other |-> "0"]
PyOne == [other |-> "1"]

IsStr(v) == "str" \in DOMAIN v
IsList(v) == "list" \in DOMAIN v
IsDict(v) == "dict" \in DOMAIN v

\* bool(v): the truth value Python gives v
Truthy(v) ==
    IF IsStr(v) THEN Len(v.str) > 0
    ELSE IF IsList(v) THEN Len(v.list) > 0
    ELSE IF IsDict(v) THEN Len(v.dict) > 0
    ELSE v.other \in {"True", "1"}

\* k in d, d[k], d.get(k), d.get(k, default) and d[k] = v on the pairs of a dict
Has(d, k) == \E i \in 1..Len(d) : d[i].k = k
Get(d, k) == d[CHOOSE i \in 1..Len(d) : d[i].k = k].v
GetOr(d, k, default) == IF Has(d, k) THEN Get(d, k) ELSE default
Put(d, k, v) ==
    IF Has(d, k)
    THEN [i \in 1..Len(d) |-> IF d[i].k = k THEN [k |-> k, v |-> v] ELSE d[i]]
    ELSE Append(d, [k |-> k, v |-> v])

(***************************************************************************)
(* str methods on character sequences                                       *)
(***************************************************************************)
Whitespace == {" ", "\t", "\n"}

\* the ASCII letters, and the other characters used, in code-point order
Uppers == <<"A", "B", "C", "D", "E", "F", "G", "H", "I", "J", "K", "L", "M",
            "N", "O", "P", "Q", "R", "S", "T", "U", "V", "W", "X", "Y", "Z">>
Lowers == <<"a", "b", "c", "d", "e", "f", "g", "h", "i", "j", "k", "l", "m",
            "n", "o", "p", "q", "r", "s", "t", "u", "v", "w", "x", "y", "z">>
Ascii == <<"\t", "\n", " ", "'", "(", ")", ",", "-", ".", "/", "0", "1", "2", "3",
           "4", "5", "6", "7", "8", "9", ":">> \o Uppers \o <<"_">> \o Lowers

IndexOf(seq, c) == CHOOSE i \in 1..Len(seq) : seq[i] = c
InSeq(seq, c) == \E i \in 1..Len(seq) : seq[i] = c
AsciiSet == {Ascii[i] : i \in 1..Len(Ascii)}

\* ord(c), c.lower() and c.upper() of one character, as tables
OrdOf == [c \in AsciiSet |-> IndexOf(Ascii, c)]
LowerOf == [c \in AsciiSet |-> IF InSeq(Uppers, c) THEN Lowers[IndexOf(Uppers, c)] ELSE c]
UpperOf == [c \in AsciiSet |-> IF InSeq(Lowers, c) THEN Uppers[IndexOf(Lowers, c)] ELSE c]

ord(c) == OrdOf[c]
lower(s) == [i \in 1..Len(s) |-> LowerOf[s[i]]]
upper(s) == [i \in 1..Len(s) |-> UpperOf[s[i]]]

\* a < b on str: lexicographic by code point
RECURSIVE StrLess(_, _)
StrLess(a, b) ==
    IF b = <<>> THEN FALSE
    ELSE IF a = <<>> THEN TRUE
    ELSE IF Head(a) = Head(b) THEN StrLess(Tail(a), Tail(b))
    ELSE ord(Head(a)) < ord(Head(b))

RECURSIVE lstrip(_)
lstrip(s) == IF s # <<>> /\ Head(s) \in Whitespace THEN lstrip(Tail(s)) ELSE s

RECURSIVE rstrip(_)
rstrip(s) ==
    IF s # <<>> /\ s[Len(s)] \in Whitespace THEN rstrip(SubSeq(s, 1, Len(s) - 1)) ELSE s

strip(s) == rstrip(lstrip(s))

startswith(s, p) == Len(s) >= Len(p) /\ SubSeq(s, 1, Len(p)) = p

todo == <<"t", "o", "d", "o">>

(***************************************************************************)
(* is_stub                                                                  *)
(***************************************************************************)
RECURSIVE is_stub_nostrip(_)
is_stub_nostrip(v) ==
    IF IsStr(v) THEN startswith(lower(v.str), todo) \/ v.str = <<>>
    ELSE IF IsList(v) THEN \A i \in 1..Len(v.list) : is_stub_nostrip(v.list[i])
    ELSE IF IsDict(v) THEN \A i \in 1..Len(v.dict) : is_stub_nostrip(v.dict[i].v)
    ELSE ~Truthy(v)

RECURSIVE is_stub(_)
is_stub(v) ==
    IF IsStr(v) THEN startswith(lower(strip(v.str)), todo) \/ strip(v.str) = <<>>
    ELSE IF IsList(v) THEN \A i \in 1..Len(v.list) : is_stub(v.list[i])
    ELSE IF IsDict(v) THEN \A i \in 1..Len(v.dict) : is_stub(v.dict[i].v)
    ELSE ~Truthy(v)

(***************************************************************************)
(* Values handed to is_stub                                                 *)
(***************************************************************************)
Chars == {" ", "T", "t", "O", "o", "d", "x"}

\* the strings of n characters
StringsOf(n) == [1..n -> Chars]

s_empty == <<>>
s_TODO == <<"T", "O", "D", "O">>
s_TODO_fill == <<"T", "O", "D", "O", ":", " ", "f", "i", "l", "l">>
s_real == <<"r", "e", "a", "l">>
s_Acute == <<"A", "c", "u", "t", "e", " ", "T", "o", "x", "i", "c", "i", "t", "y",
             " ", "D", "a", "t", "a", "s", "e", "t">>

Atoms ==
    {Str(s_empty), Str(<<" ">>), Str(s_TODO), Str(<<" ", "t", "o", "D", "o", "x">>),
     Str(s_real), Str(<<"t", "o", "d">>), PyNone, PyFalse, PyTrue, PyZero, PyOne}

Flat == Atoms \cup {List(<<>>), Dict(<<>>)}
         \cup {List(<<a>>) : a \in Atoms}
         \cup {Dict(<<[k |-> "name", v |-> a]>>) : a \in Atoms}

Containers ==
    {List(<<a, b>>) : a \in Flat, b \in Atoms}
    \cup {Dict(<<[k |-> "name", v |-> a], [k |-> "url", v |-> b]>>) : a \in Atoms, b \in Flat}

StubInputs ==
    Flat \cup Containers
    \cup {Str(s_TODO_fill), Str(s_Acute), List(<<Str(s_TODO)>>),
          List(<<Str(s_TODO), Str(s_real)>>)}

NoFile == [nofile |-> TRUE]
NoEnv == [noenv |-> TRUE]
NoBatch == [nobatch |-> TRUE]
NoPass == [script |-> "none", overwrite |-> FALSE, outcome |-> "none", changed |-> FALSE,
           again |-> FALSE]

InitStub ==
    /\ pc = "call"
    /\ \/ \E n \in 0..MaxStrLen : \E s \in StringsOf(n) : arg = Str(s)
       \/ arg \in StubInputs
    /\ ret = PyNone
    /\ file = NoFile /\ env = NoEnv /\ pass = NoPass /\ before = NoFile
    /\ batch = NoBatch

CallIsStub ==
    /\ pc = "call"
    /\ ret' = is_stub(arg)
    /\ pc' = "done"
    /\ UNCHANGED <<arg, file, env, pass, before, batch>>

NextStub == CallIsStub

SpecStub == InitStub /\ [][NextStub]_vars

\* the definition of a stub, stated on the characters of a string
RECURSIVE StubByDefinition(_)
StubByDefinition(v) ==
    IF IsStr(v)
    THEN LET s == v.str
             Blank(i) == s[i] \in Whitespace
         IN  \/ \A i \in 1..Len(s) : Blank(i)
             \/ \E i \in 1..Len(s) :
                   /\ \A j \in 1..(i - 1) : Blank(j)
                   /\ i + 3 <= Len(s)
                   /\ s[i] \in {"t", "T"} /\ s[i + 1] \in {"o", "O"}
                   /\ s[i + 2] \in {"d", "D"} /\ s[i + 3] \in {"o", "O"}
    ELSE IF IsList(v) THEN ~ \E i \in 1..Len(v.list) : ~StubByDefinition(v.list[i])
    ELSE IF IsDict(v) THEN ~ \E i \in 1..Len(v.dict) : ~StubByDefinition(v.dict[i].v)
    ELSE v \in {PyNone, PyFalse, PyZero}

StubExamples ==
    /\ arg = Str(s_empty) => ret = TRUE
    /\ arg = Str(s_TODO_fill) => ret = TRUE
    /\ arg = List(<<>>) => ret = TRUE
    /\ arg = List(<<Str(s_TODO)>>) => ret = TRUE
    /\ arg = List(<<Str(s_TODO), Str(s_real)>>) => ret = FALSE
    /\ arg = Str(s_Acute) => ret = FALSE

(***************************************************************************)
(* C9: is_stub agrees with the recursive definition of a stub: a string    *)
(* is a stub iff it is all whitespace or its first non-blank characters    *)
(* spell "todo" in any letter case; a list (a mapping) iff every element   *)
(* (every value) is a stub; anything else iff it is falsy.  The six named  *)
(* examples come out as stated.                                            *)
(***************************************************************************)
C9_StubClassification ==
    pc = "done" => (ret = StubByDefinition(arg) /\ StubExamples)

C9_Witness ==
    /\ pc = "done"
    /\ arg = Str(<<" ", "t", "O", "d", "o">>)
    /\ ret = TRUE

(***************************************************************************)
(* Asset entries and merge_assets                                           *)
(***************************************************************************)
Entry(fn, fmt, desc) ==
    Dict(<<[k |-> "file", v |-> Str(fn)],
           [k |-> "format", v |-> Str(fmt)],
           [k |-> "description", v |-> Str(desc)]>>)

FileOf(d) == Get(d.dict, "file")

\* the sources of merge_assets, scanned in argument order, each front to back
RECURSIVE Chain(_)
Chain(sources) ==
    IF sources = <<>> THEN <<>> ELSE Head(sources) \o Chain(Tail(sources))

\* the two nested loops of merge_assets: merged, with seen = the files in it
RECURSIVE Scan(_, _)
Scan(ds, merged) ==
    IF ds = <<>> THEN merged
    ELSE LET d == Head(ds)
             seen == {FileOf(merged[i]) : i \in 1..Len(merged)}
         IN  IF FileOf(d) \in seen
             THEN Scan(Tail(ds), merged)
             ELSE Scan(Tail(ds), Append(merged, d))

\* sorted(xs, key=lambda x: x["file"]): a stable sort, here by insertion
RECURSIVE InsertSorted(_, _)
InsertSorted(x, sorted) ==
    IF sorted = <<>> THEN <<x>>
    ELSE IF StrLess(FileOf(x).str, FileOf(Head(sorted)).str)
         THEN <<x>> \o sorted
         ELSE <<Head(sorted)>> \o InsertSorted(x, Tail(sorted))

RECURSIVE SortedByFile(_)
SortedByFile(xs) ==
    IF xs = <<>> THEN <<>>
    ELSE InsertSorted(xs[Len(xs)], SortedByFile(SubSeq(xs, 1, Len(xs) - 1)))

merge_assets_nodedup(sources) == SortedByFile(Chain(sources))

merge_assets_unsorted(sources) == Scan(Chain(sources), <<>>)

RECURSIVE Reverse(_)
Reverse(s) == IF s = <<>> THEN <<>> ELSE Append(Reverse(Tail(s)), Head(s))

merge_assets_last_wins(sources) == SortedByFile(Scan(Reverse(Chain(sources)), <<>>))

merge_assets(sources) == SortedByFile(Scan(Chain(sources), <<>>))

(***************************************************************************)
(* Asset lists handed to merge_assets                                       *)
(***************************************************************************)
f_a == <<"a", ".", "c", "s", "v">>
f_b == <<"b", ".", "c", "s", "v">>
f_B == <<"B", ".", "c", "s", "v">>
x_CSV == <<"C", "S", "V">>
d_present == <<"f", "i", "l", "e", " ", "p", "r", "e", "s", "e", "n", "t", " ",
               "i", "n", " ", "r", "e", "p", "o">>
d_dose == <<"d", "o", "s", "e">>

MergeEntries ==
    {Entry(f_a, x_CSV, d_present), Entry(f_a, x_CSV, d_dose),
     Entry(f_b, x_CSV, d_present), Entry(f_B, x_CSV, <<>>)}

\* the sequences of n entries
EntrySeqs(n) == [1..n -> MergeEntries]

\* the entries ds cut into k lists: entry i goes to list owner[i]
Split(ds, k, owner) ==
    [j \in 1..k |->
        SubSeq(ds, Cardinality({i \in 1..Len(ds) : owner[i] < j}) + 1,
                   Cardinality({i \in 1..Len(ds) : owner[i] <= j}))]

\* the ways to give each of n entries one of k lists, in scan order
Owners(n, k) == {o \in [1..n -> 1..k] : \A i \in 1..(n - 1) : o[i] <= o[i + 1]}

InitMerge ==
    /\ pc = "call"
    /\ \E n \in 0..MaxEntries, k \in 0..MaxSources :
          \E ds \in EntrySeqs(n), owner \in Owners(n, k) : arg = Split(ds, k, owner)
    /\ ret = <<>>
    /\ file = NoFile /\ env = NoEnv /\ pass = NoPass /\ before = NoFile
    /\ batch = NoBatch

CallMergeAssets ==
    /\ pc = "call"
    /\ ret' = merge_assets(arg)
    /\ pc' = "done"
    /\ UNCHANGED <<arg, file, env, pass, before, batch>>

NextMerge == CallMergeAssets

SpecMerge == InitMerge /\ [][NextMerge]_vars

Files(ds) == {FileOf(ds[i]) : i \in 1..Len(ds)}

(***************************************************************************)
(* C2: whatever lists merge_assets is given, duplicates inside one list    *)
(* and across lists included, no two entries of its output have the same   *)
(* `file`.                                                                  *)
(***************************************************************************)
C2_AssetUniqueness ==
    pc = "done" =>
        \A i, j \in 1..Len(ret) : FileOf(ret[i]) = FileOf(ret[j]) => i = j

C2_Witness ==
    /\ pc = "done"
    /\ \E s \in 1..Len(arg) : \E i, j \in 1..Len(arg[s]) :
          i # j /\ FileOf(arg[s][i]) = FileOf(arg[s][j])
    /\ \E s, u \in 1..Len(arg) :
          s # u /\ Files(arg[s]) \cap Files(arg[u]) # {}
    /\ Len(ret) = 2

Ascending(keys) ==
    \A i \in 1..(Len(keys) - 1) : StrLess(keys[i].str, keys[i + 1].str)

(***************************************************************************)
(* C4: the output of merge_assets is in ascending order of `file`, so the  *)
(* sequence of its `file` keys is the ascending enumeration of the set of  *)
(* keys reported, whatever the order of the lists and of their entries.    *)
(***************************************************************************)
C4_SortedByFile ==
    pc = "done" =>
        LET keys == [i \in 1..Len(ret) |-> FileOf(ret[i])]
        IN  /\ Ascending(keys)
            /\ {keys[i] : i \in 1..Len(keys)} = Files(Chain(arg))

C4_Witness ==
    /\ pc = "done"
    /\ Len(ret) = 3
    /\ ~Ascending([i \in 1..Len(Chain(arg)) |-> FileOf(Chain(arg)[i])])
    /\ FileOf(ret[1]) = Str(f_B)

(***************************************************************************)
(* Providers of Enrich_Meta_Gpt.py.  env holds what the outside world      *)
(* answers for the brick:                                                   *)
(*   env.bb      [raises, ns]: bb.assets(brick) raises, or the namespace   *)
(*               as a sequence of [alias, name] (name = Path(pth).name)    *)
(*   env.disk    the files of brick_repos/<brick>/ as [dir, name], in the  *)
(*               order rglob yields them                                   *)
(*   env.status  [ok, hits]: the status page was fetched, and the          *)
(*               (file name, size) pairs the regular expression finds      *)
(*   env.gpt     [kind, data]: "nokey" (no API key), "apierror" (the       *)
(*               completion call raises), "badyaml" (the answer does not   *)
(*               parse), "data" (the answer parses to data)                *)
(***************************************************************************)
Dot == "."

\* position of the last "." of s, 0 when it has none
LastDot(s) ==
    IF \E i \in 1..Len(s) : s[i] = Dot
    THEN CHOOSE i \in 1..Len(s) : s[i] = Dot /\ \A j \in (i + 1)..Len(s) : s[j] # Dot
    ELSE 0

\* Path(name).suffix, and the text after the last "."
suffix(name) ==
    IF LastDot(name) <= 1 \/ LastDot(name) = Len(name) THEN <<>>
    ELSE SubSeq(name, LastDot(name), Len(name))

AfterLastDot(s) == SubSeq(s, LastDot(s) + 1, Len(s))

RECURSIVE lstrip_dots(_)
lstrip_dots(s) == IF s # <<>> /\ Head(s) = Dot THEN lstrip_dots(Tail(s)) ELSE s

replace(s, old, new) == [i \in 1..Len(s) |-> IF s[i] = old THEN new ELSE s[i]]

EXT2FMT ==
    <<[ext |-> <<"p", "a", "r", "q", "u", "e", "t">>, fmt |-> <<"P", "a", "r", "q", "u", "e", "t">>],
      [ext |-> <<"c", "s", "v">>, fmt |-> <<"C", "S", "V">>],
      [ext |-> <<"t", "s", "v">>, fmt |-> <<"T", "S", "V">>],
      [ext |-> <<"j", "s", "o", "n">>, fmt |-> <<"J", "S", "O", "N">>],
      [ext |-> <<"h", "5">>, fmt |-> <<"H", "D", "F", "5">>],
      [ext |-> <<"h", "d", "f", "5">>, fmt |-> <<"H", "D", "F", "5">>]>>

InEXT2FMT(ext) == \E i \in 1..Len(EXT2FMT) : EXT2FMT[i].ext = ext
EXT2FMT_get(ext, default) ==
    IF InEXT2FMT(ext)
    THEN EXT2FMT[CHOOSE i \in 1..Len(EXT2FMT) : EXT2FMT[i].ext = ext].fmt
    ELSE default

META_TEMPLATE ==
    <<"title", "description", "source", "license", "tags", "assets", "transformations">>

\* scrape_status: the page text, "" when the request fails
scrape_status(e) == IF e.status.ok THEN e.status.hits ELSE <<>>

d_auto_open == <<"A", "u", "t", "o", "-", "d", "e", "t", "e", "c", "t", "e", "d", " ",
                 "f", "i", "l", "e", " ", "(">>

assets_from_status(text) ==
    [i \in 1..Len(text) |->
        Entry(text[i].fn, upper(AfterLastDot(text[i].fn)),
              d_auto_open \o strip(text[i].size) \o <<")">>)]

assets_from_bb(e) ==
    IF e.bb.raises THEN <<>>
    ELSE [i \in 1..Len(e.bb.ns) |->
             LET p == e.bb.ns[i].name
             IN  Entry(p, EXT2FMT_get(lower(lstrip_dots(suffix(p))), upper(suffix(p))),
                       replace(e.bb.ns[i].alias, "_", " "))]

RECURSIVE assets_from_disk_walk(_)
assets_from_disk_walk(ps) ==
    IF ps = <<>> THEN <<>>
    ELSE LET p == Head(ps).name
             ext == lower(lstrip_dots(suffix(p)))
         IN  IF LastDot(p) > 0 /\ InEXT2FMT(ext)
             THEN <<Entry(p, EXT2FMT_get(ext, <<>>), d_present)>>
                  \o assets_from_disk_walk(Tail(ps))
             ELSE assets_from_disk_walk(Tail(ps))

assets_from_disk(e) == assets_from_disk_walk(e.disk)

\* gpt_extract_meta: [raised, value]; the completion call is outside the try
gpt_extract_meta(e) ==
    IF e.gpt.kind = "nokey" THEN [raised |-> FALSE, value |-> <<>>]
    ELSE IF e.gpt.kind = "apierror" THEN [raised |-> TRUE, value |-> <<>>]
    ELSE IF e.gpt.kind = "badyaml" THEN [raised |-> FALSE, value |-> <<>>]
    ELSE IF IsDict(e.gpt.data) THEN [raised |-> FALSE, value |-> e.gpt.data.dict]
    ELSE [raised |-> FALSE, value |-> <<>>]

(***************************************************************************)
(* enrich of Enrich_Meta_Gpt.py                                             *)
(***************************************************************************)
\* what `for d in src` yields: the elements of a list, the characters of a
\* str, the keys of a dict
Elements(src) ==
    IF IsList(src) THEN src.list
    ELSE IF IsStr(src) THEN [i \in 1..Len(src.str) |-> Str(<<src.str[i]>>)]
    ELSE [i \in 1..Len(src.dict) |-> Str(<<src.dict[i].k>>)]

\* merge_assets raises: a source that cannot be iterated, or an element d
\* for which d["file"] fails
MergeRaises(sources) ==
    \E s \in 1..Len(sources) :
        \/ ~(IsList(sources[s]) \/ IsStr(sources[s]) \/ IsDict(sources[s]))
        \/ \E i \in 1..Len(Elements(sources[s])) :
              LET d == Elements(sources[s])[i]
              IN  ~IsDict(d) \/ ~Has(d.dict, "file")

Rebuild_always(meta, k, overwrite) == TRUE

Rebuild_fill_only(meta, k, overwrite) ==
    ~Truthy(GetOr(meta, k, PyNone)) \/ is_stub(Get(meta, k))

\* the condition under which enrich rebuilds meta[k]
Rebuild(meta, k, overwrite) ==
    overwrite \/ ~Truthy(GetOr(meta, k, PyNone)) \/ is_stub(Get(meta, k))

\* the arguments of merge_assets in enrich, in their order
enrich_sources(e, gpt_meta) ==
    <<List(assets_from_bb(e)),
      List(assets_from_disk(e)),
      GetOr(gpt_meta, "assets", List(<<>>)),
      List(assets_from_status(scrape_status(e)))>>

enrich_assets_extend(meta, overwrite, sources) ==
    IF Rebuild(meta, "assets", overwrite)
    THEN IF MergeRaises(sources)
         THEN [raised |-> TRUE, meta |-> meta]
         ELSE [raised |-> FALSE,
               meta |-> Put(meta, "assets",
                            List(Elements(GetOr(meta, "assets", List(<<>>)))
                                 \o merge_assets([s \in 1..Len(sources) |->
                                                     Elements(sources[s])])))]
    ELSE [raised |-> FALSE, meta |-> meta]

\* "assemble assets": [raised, meta]
enrich_assets(meta, overwrite, sources) ==
    IF Rebuild(meta, "assets", overwrite)
    THEN IF MergeRaises(sources)
         THEN [raised |-> TRUE, meta |-> meta]
         ELSE [raised |-> FALSE,
               meta |-> Put(meta, "assets",
                            List(merge_assets([s \in 1..Len(sources) |->
                                                  Elements(sources[s])])))]
    ELSE [raised |-> FALSE, meta |-> meta]

\* one turn of the loop over the other keys
enrich_key(meta, k, overwrite, gpt_meta) ==
    IF k = "assets" THEN meta
    ELSE IF Rebuild(meta, k, overwrite) /\ Truthy(GetOr(gpt_meta, k, PyNone))
         THEN Put(meta, k, Get(gpt_meta, k))
         ELSE meta

RECURSIVE enrich_keys(_, _, _, _)
enrich_keys(meta, ks, overwrite, gpt_meta) ==
    IF ks = <<>> THEN meta
    ELSE enrich_keys(enrich_key(meta, Head(ks), overwrite, gpt_meta),
                     Tail(ks), overwrite, gpt_meta)

\* "None — preserved as-is", its dash written "-"
d_default == <<"N", "o", "n", "e", " ", "-", " ", "p", "r", "e", "s", "e", "r", "v",
               "e", "d", " ", "a", "s", "-", "i", "s">>

enrich_transformations_missing_only(meta) ==
    IF ~Has(meta, "transformations")
    THEN Put(meta, "transformations", Str(d_default))
    ELSE meta

enrich_transformations(meta) ==
    IF ~Has(meta, "transformations") \/ is_stub(Get(meta, "transformations"))
    THEN Put(meta, "transformations", Str(d_default))
    ELSE meta

\* yaml.safe_load(meta_p.read_text()) if meta_p.exists() else {}; meta or {}
load_meta(f) == IF f = NoFile \/ ~Truthy(f) THEN <<>> ELSE f.dict

\* the whole of enrich: [raised, written], written the document put in meta.yaml
enrich(f, e, overwrite) ==
    LET gpt == gpt_extract_meta(e)
        meta == load_meta(f)
        a == enrich_assets(meta, overwrite, enrich_sources(e, gpt.value))
    IN  IF gpt.raised \/ a.raised
        THEN [raised |-> TRUE, written |-> f]
        ELSE [raised |-> FALSE,
              written |-> Dict(enrich_transformations(
                                   enrich_keys(a.meta, META_TEMPLATE, overwrite, gpt.value)))]

(***************************************************************************)
(* auto_meta.py: stub generation, enrichment from the status page, and the *)
(* body of main's loop for one repository.  env holds also                 *)
(*   env.clone   clone_or_pull returned the local path (FALSE: None)       *)
(*   env.gh      [ok, description]: gh_api answered, and its description   *)
(*   env.page    [ok, data]: the status page held __NEXT_DATA__, and the   *)
(*               dict under props.pageProps.brick                          *)
(***************************************************************************)
s_brick == <<"c", "h", "e", "m", "b", "l">>
s_todo_plain ==
    <<"T", "O", "D", "O", ":", " ", "p", "l", "a", "i", "n", "-", "l", "a", "n", "g",
      "u", "a", "g", "e", " ", "d", "e", "s", "c", "r", "i", "p", "t", "i", "o", "n",
      ".">>
s_todo_source ==
    <<"T", "O", "D", "O", ":", " ", "d", "a", "t", "a", " ", "s", "o", "u", "r", "c",
      "e">>
s_example_url ==
    <<"h", "t", "t", "p", "s", ":", "/", "/", "e", "x", "a", "m", "p", "l", "e", ".",
      "c", "o", "m">>
\* the dash of the source text written "-"
s_raw_preserved ==
    <<"N", "o", "n", "e", " ", "-", " ", "r", "a", "w", " ", "d", "a", "t", "a", " ",
      "p", "r", "e", "s", "e", "r", "v", "e", "d", ".", "\n", "T", "O", "D", "O", ":",
      " ", "u", "p", "d", "a", "t", "e", " ", "i", "f", " ", "p", "r", "o", "c", "e",
      "s", "s", "i", "n", "g", " ", "a", "p", "p", "l", "i", "e", "d", ".">>
s_TODO_ext == <<"T", "O", "D", "O", ".", "e", "x", "t">>
s_todo_describe ==
    <<"T", "O", "D", "O", ":", " ", "d", "e", "s", "c", "r", "i", "b", "e", " ", "t",
      "h", "i", "s", " ", "f", "i", "l", "e">>
s_brick_dir == <<"b", "r", "i", "c", "k">>

StubAssetCap == 20

DetectExts ==
    {<<".", "p", "a", "r", "q", "u", "e", "t">>, <<".", "c", "s", "v">>,
     <<".", "t", "s", "v">>, <<".", "j", "s", "o", "n">>,
     <<".", "s", "q", "l", "i", "t", "e">>, <<".", "d", "b">>, <<".", "s", "d", "f">>,
     <<".", "t", "x", "t">>}

RECURSIVE detect_assets_walk(_)
detect_assets_walk(ps) ==
    IF ps = <<>> THEN <<>>
    ELSE LET p == Head(ps)
         IN  IF p.dir = s_brick_dir /\ lower(suffix(p.name)) \in DetectExts
             THEN <<Entry(p.dir \o <<"/">> \o p.name,
                          upper(lstrip_dots(suffix(p.name))), s_todo_describe)>>
                  \o detect_assets_walk(Tail(ps))
             ELSE detect_assets_walk(Tail(ps))

detect_assets(e) ==
    LET assets == detect_assets_walk(e.disk)
    IN  SubSeq(assets, 1, IF Len(assets) < StubAssetCap THEN Len(assets) ELSE StubAssetCap)

\* make_stub, given that gh_api answered
make_stub(e) ==
    Dict(<<[k |-> "brick_name", v |-> Str(s_brick)],
           [k |-> "description",
            v |-> IF Truthy(e.gh.description) THEN e.gh.description ELSE Str(s_todo_plain)],
           [k |-> "source",
            v |-> List(<<Dict(<<[k |-> "name", v |-> Str(s_todo_source)],
                               [k |-> "url", v |-> Str(s_example_url)],
                               [k |-> "citation", v |-> Str(s_TODO)],
                               [k |-> "license", v |-> Str(s_TODO)]>>)>>)],
           [k |-> "transformations", v |-> Str(s_raw_preserved)],
           [k |-> "assets",
            v |-> IF detect_assets(e) # <<>> THEN List(detect_assets(e))
                  ELSE List(<<Entry(s_TODO_ext, s_TODO, s_TODO)>>)]>>)

\* a.get(k) or a.get(k2), for a remote asset a
FirstTruthy(a, k, k2) ==
    IF Truthy(GetOr(a, k, PyNone)) THEN Get(a, k) ELSE GetOr(a, k2, PyNone)

\* the dict built for one remote asset; [raised, value]
remote_asset(a) ==
    LET fmt == GetOr(a, "format", PyNone)
        path == GetOr(a, "path", GetOr(a, "name", PyNone))
    IN  IF ~Truthy(fmt) /\ ~IsStr(path)
        THEN [raised |-> TRUE, value |-> PyNone]
        ELSE [raised |-> FALSE,
              value |-> Dict(<<[k |-> "file", v |-> FirstTruthy(a, "path", "name")],
                               [k |-> "format",
                                v |-> IF Truthy(fmt) THEN fmt
                                      ELSE Str(lstrip_dots(suffix(path.str)))],
                               [k |-> "description",
                                v |-> GetOr(a, "description", Str(<<>>))]>>)]

\* enrich of auto_meta.py on meta (a document): [raised, meta]
auto_enrich(meta, e) ==
    IF ~e.page.ok THEN [raised |-> FALSE, meta |-> meta]
    ELSE LET data == e.page.data
             dt == GetOr(data, "dataset_type", PyNone)
             lic_block == GetOr(data, "license", Dict(<<>>))
             lic == GetOr(lic_block.dict, "name", PyNone)
             remote == GetOr(data, "assets", PyNone)
             remote_assets == IF Truthy(remote) THEN remote.list ELSE <<>>
             built == [i \in 1..Len(remote_assets) |-> remote_asset(remote_assets[i].dict)]
             m1 == IF Truthy(dt) THEN Put(meta.dict, "dataset_type", dt) ELSE meta.dict
             m2 == IF Truthy(lic) THEN Put(m1, "license", lic) ELSE m1
             m3 == IF remote_assets # <<>>
                   THEN Put(m2, "assets", List([i \in 1..Len(built) |-> built[i].value]))
                   ELSE m2
         IN  IF Truthy(dt) /\ ~IsDict(meta) THEN [raised |-> TRUE, meta |-> meta]
             ELSE IF ~IsDict(lic_block) THEN [raised |-> TRUE, meta |-> meta]
             ELSE IF Truthy(lic) /\ ~IsDict(meta) THEN [raised |-> TRUE, meta |-> meta]
             ELSE IF \E i \in 1..Len(built) : built[i].raised
                  THEN [raised |-> TRUE, meta |-> meta]
             ELSE IF remote_assets # <<>> /\ ~IsDict(meta)
                  THEN [raised |-> TRUE, meta |-> meta]
             ELSE IF IsDict(meta) THEN [raised |-> FALSE, meta |-> Dict(m3)]
             ELSE [raised |-> FALSE, meta |-> meta]

\* yaml.safe_dump(meta, sort_keys=False), as the tokens of the text: keys in
\* insertion order
RECURSIVE safe_dump(_)
RECURSIVE dump_items(_)
RECURSIVE dump_pairs(_)
safe_dump(v) ==
    IF IsStr(v) THEN <<"'">> \o v.str \o <<"'">>
    ELSE IF IsList(v) THEN <<"[">> \o dump_items(v.list) \o <<"]">>
    ELSE IF IsDict(v) THEN <<"{">> \o dump_pairs(v.dict) \o <<"}">>
    ELSE <<v.other>>
dump_items(l) ==
    IF l = <<>> THEN <<>> ELSE safe_dump(Head(l)) \o <<",">> \o dump_items(Tail(l))
dump_pairs(d) ==
    IF d = <<>> THEN <<>>
    ELSE <<Head(d).k, ":">> \o safe_dump(Head(d).v) \o <<",">> \o dump_pairs(Tail(d))

\* hashlib.sha1(text).hexdigest(), taken to be free of collisions
sha(text) == <<"sha1">> \o text

\* main's loop body for one repository: [outcome, changed, written]
auto_main(f, e) ==
    IF ~e.clone THEN [outcome |-> "noclone", changed |-> FALSE, written |-> f]
    ELSE IF f = NoFile /\ ~e.gh.ok THEN [outcome |-> "raised", changed |-> FALSE, written |-> f]
    ELSE LET meta == IF f # NoFile THEN f ELSE make_stub(e)
             fingerprint_before == sha(safe_dump(meta))
             r == auto_enrich(meta, e)
             fingerprint_after == sha(safe_dump(r.meta))
         IN  IF r.raised THEN [outcome |-> "raised", changed |-> FALSE, written |-> f]
             ELSE IF fingerprint_before = fingerprint_after
                  THEN [outcome |-> "nochange", changed |-> FALSE, written |-> f]
                  ELSE [outcome |-> "written", changed |-> TRUE, written |-> r.meta]

(***************************************************************************)
(* add_meta_stub.py: the skeleton written for a brick without meta.yaml.   *)
(***************************************************************************)
\* the hyphens of the source text written "-"
s_stub_description ==
    <<"T", "O", "D", "O", ":", " ", "o", "n", "e", "-", "s", "e", "n", "t", "e", "n", "c",
      "e", " ", "p", "l", "a", "i", "n", "-", "l", "a", "n", "g", "u", "a", "g", "e", " ",
      "d", "e", "s", "c", "r", "i", "p", "t", "i", "o", "n", ".">>
s_stub_name ==
    <<"T", "O", "D", "O", ":", " ", "d", "a", "t", "a", " ", "s", "o", "u", "r", "c", "e",
      " ", "n", "a", "m", "e">>
s_stub_url ==
    <<"T", "O", "D", "O", ":", " ", "h", "t", "t", "p", "s", ":", "/", "/", "e", "x", "a",
      "m", "p", "l", "e", ".", "c", "o", "m">>
s_stub_citation ==
    <<"T", "O", "D", "O", ":", " ", "A", "u", "t", "h", "o", "r", " ", "e", "t", " ", "a",
      "l", ".", " ", "(", "Y", "E", "A", "R", ")">>
s_stub_license ==
    <<"T", "O", "D", "O", ":", " ", "l", "i", "c", "e", "n", "s", "e">>
\* the dash and the hyphen of the source text written "-"
s_stub_transformations ==
    <<"T", "O", "D", "O", ":", " ", "d", "e", "s", "c", "r", "i", "b", "e", " ", "a", "n",
      "y", " ", "p", "r", "o", "c", "e", "s", "s", "i", "n", "g", ",", " ", "o", "r", " ",
      "s", "a", "y", " ", "'", "n", "o", "n", "e", " ", "-", " ", "p", "r", "e", "s", "e",
      "r", "v", "e", "d", " ", "a", "s", "-", "i", "s", "'">>
s_TODO_parquet ==
    <<"T", "O", "D", "O", ".", "p", "a", "r", "q", "u", "e", "t">>
x_Parquet ==
    <<"P", "a", "r", "q", "u", "e", "t">>
s_stub_contains ==
    <<"T", "O", "D", "O", ":", " ", "w", "h", "a", "t", " ", "t", "h", "i", "s", " ", "f",
      "i", "l", "e", " ", "c", "o", "n", "t", "a", "i", "n", "s">>

\* STUB.copy() with stub["brick_name"] = brick
STUB ==
    Dict(<<[k |-> "brick_name", v |-> Str(s_brick)],
           [k |-> "description", v |-> Str(s_stub_description)],
           [k |-> "source",
            v |-> List(<<Dict(<<[k |-> "name", v |-> Str(s_stub_name)],
                               [k |-> "url", v |-> Str(s_stub_url)],
                               [k |-> "citation", v |-> Str(s_stub_citation)],
                               [k |-> "license", v |-> Str(s_stub_license)]>>)>>)],
           [k |-> "transformations", v |-> Str(s_stub_transformations)],
           [k |-> "assets",
            v |-> List(<<Entry(s_TODO_parquet, x_Parquet, s_stub_contains)>>)]>>)

\* the loop body for one brick: [outcome, written]; the clone is not checked,
\* so a failed clone leaves no directory to open meta.yaml in
add_meta_stub(f, e) ==
    IF f # NoFile THEN [outcome |-> "nochange", written |-> f]
    ELSE IF ~e.clone THEN [outcome |-> "raised", written |-> f]
    ELSE [outcome |-> "written", written |-> STUB]

(***************************************************************************)
(* update_brick_docs.py: meta.yaml built anew from the status API and the  *)
(* GitHub repository record.  env holds also                               *)
(*   env.api     fetch_status: None, or the JSON object of the brick       *)
(* and env.gh is the repository record fetch_gh_repo asks GitHub for (its  *)
(* homepage null).                                                          *)
(***************************************************************************)
s_todo_description ==
    <<"T", "O", "D", "O", ":", " ", "d", "e", "s", "c", "r", "i", "p", "t", "i", "o", "n">>
s_todo_verify ==
    <<"T", "O", "D", "O", ":", " ", "v", "e", "r", "i", "f", "y">>
\* the dash of the source text written "-"
s_raw_only ==
    <<"N", "o", "n", "e", " ", "-", " ", "r", "a", "w", " ", "d", "a", "t", "a", " ", "p",
      "r", "e", "s", "e", "r", "v", "e", "d", ".">>
s_homepage ==
    <<"h", "t", "t", "p", "s", ":", "/", "/", "e", "b", "i", ".", "a", "c", ".", "u", "k">>
s_tool ==
    <<"t", "o", "o", "l">>

\* the placeholder asset of make_stub and build_meta
StubEntry == Entry(s_TODO_ext, s_TODO, s_TODO)

\* a or b
Or(a, b) == IF Truthy(a) THEN a ELSE b

\* fetch_gh_repo, given that GitHub answered
fetch_gh_repo(e) ==
    <<[k |-> "description", v |-> e.gh.description], [k |-> "homepage", v |-> PyNone]>>

\* the dict appended for one asset a of the status record: [raised, value]
build_asset(a) ==
    IF ~IsDict(a) THEN [raised |-> TRUE, value |-> PyNone]
    ELSE LET fmt == GetOr(a.dict, "format", Str(<<>>))
         IN  IF ~IsStr(fmt) THEN [raised |-> TRUE, value |-> PyNone]
             ELSE [raised |-> FALSE,
                   value |-> Dict(<<[k |-> "file", v |-> FirstTruthy(a.dict, "path", "name")],
                                    [k |-> "format", v |-> Str(upper(fmt.str))],
                                    [k |-> "description",
                                     v |-> Or(GetOr(a.dict, "name", PyNone), Str(s_TODO))]>>)]

\* build_meta: [raised, meta]
build_meta(status, gh_meta) ==
    LET get(d, k) == GetOr(d, k, PyNone)
        description == Or(get(status, "description"),
                          Or(get(gh_meta, "description"), Str(s_todo_description)))
        source_block ==
            Dict(<<[k |-> "name",
                    v |-> Or(get(status, "homepage"),
                             Or(get(gh_meta, "homepage"), Str(s_todo_source)))],
                   [k |-> "url",
                    v |-> Or(get(status, "source_url"),
                             Or(get(status, "homepage"),
                                Or(get(gh_meta, "homepage"), Str(s_TODO))))],
                   [k |-> "citation", v |-> Or(get(status, "citation"), Str(s_todo_verify))],
                   [k |-> "license", v |-> Or(get(status, "license"), Str(s_todo_verify))]>>)
        transformations == Or(get(status, "transform"), Str(s_raw_only))
        reported == GetOr(status, "assets", List(<<>>))
        iterable == IsList(reported) \/ IsStr(reported) \/ IsDict(reported)
        built == IF iterable
                 THEN [i \in 1..Len(Elements(reported)) |-> build_asset(Elements(reported)[i])]
                 ELSE <<>>
        assets == IF built = <<>> THEN <<StubEntry>>
                  ELSE [i \in 1..Len(built) |-> built[i].value]
    IN  IF ~iterable \/ \E i \in 1..Len(built) : built[i].raised
        THEN [raised |-> TRUE, meta |-> PyNone]
        ELSE [raised |-> FALSE,
              meta |-> Dict(<<[k |-> "brick_name", v |-> Str(s_brick)],
                              [k |-> "description", v |-> description],
                              [k |-> "source", v |-> List(<<source_block>>)],
                              [k |-> "transformations", v |-> transformations],
                              [k |-> "assets", v |-> List(assets)]>>)]

\* main's loop body for one brick: [outcome, written]
docs_main(f, e) ==
    IF ~Truthy(e.api) THEN [outcome |-> "nostatus", written |-> f]
    ELSE IF GetOr(e.api.dict, "type", PyNone) = Str(s_tool)
         THEN [outcome |-> "skipped", written |-> f]
    ELSE IF ~e.clone \/ ~e.gh.ok THEN [outcome |-> "raised", written |-> f]
    ELSE LET r == build_meta(e.api.dict, fetch_gh_repo(e))
         IN  IF r.raised THEN [outcome |-> "raised", written |-> f]
             ELSE [outcome |-> "written", written |-> r.meta]

(***************************************************************************)
(* Starting records and provider answers                                    *)
(***************************************************************************)
s_old == <<"o", "l", "d">>
s_new == <<"n", "e", "w">>
s_MIT == <<"M", "I", "T">>
s_tabular == <<"t", "a", "b", "u", "l", "a", "r">>
s_gh_desc == <<"C", "h", "E", "M", "B", "L", " ", "d", "a", "t", "a">>
f_readme == <<"R", "E", "A", "D", "M", "E", ".", "m", "d">>
s_1KB == <<"1", " ", "K", "B">>
s_alias == <<"a", "_", "t", "a", "b", "l", "e">>

Absent == [absent |-> TRUE]

FieldKeys == {"title", "description", "source", "license", "tags", "transformations"}
ListKeys == {"source", "tags"}

\* values a stored field may hold: falsy, a truthy stub, real content
ExVals(k) ==
    IF k \in ListKeys
    THEN {List(<<>>), List(<<Str(s_TODO)>>), List(<<Str(s_old)>>)}
    ELSE {PyNone, Str(s_TODO_fill), Str(s_old)}

\* values the model extraction may return for a field
CandVals(k) ==
    IF k \in ListKeys
    THEN {List(<<>>), List(<<Str(s_TODO)>>), List(<<Str(s_new)>>)}
    ELSE {Str(<<>>), Str(<<"t", "o", "d", "o">>), Str(s_new)}

\* the order of the keys in a stored meta.yaml (that of the stub writers)
FileOrder ==
    <<"title", "description", "source", "license", "tags", "transformations", "assets">>

\* the dict holding, in the given order, the keys f does not leave Absent
RECURSIVE MkDict(_, _)
MkDict(order, f) ==
    IF order = <<>> THEN <<>>
    ELSE IF f[Head(order)] = Absent THEN MkDict(Tail(order), f)
    ELSE <<[k |-> Head(order), v |-> f[Head(order)]]>> \o MkDict(Tail(order), f)

\* the sets of at most MaxKeys field keys
KeySets == {S \in SUBSET FieldKeys : Cardinality(S) <= MaxKeys}

\* assignments of values (or Absent) to the keys of K, every other key Absent
FieldChoices(side, K) ==
    LET Vals(k) == IF side = "stored" THEN ExVals(k) ELSE CandVals(k)
    IN  {[k \in FieldKeys \cup {"assets"} |-> IF k \in K THEN g[k] ELSE Absent] :
            g \in {h \in [K -> UNION {Vals(k) : k \in K} \cup {Absent}] :
                      \A k \in K : h[k] = Absent \/ h[k] \in Vals(k)}}

ExAssets ==
    {Absent, List(<<>>), List(<<StubEntry>>), List(<<Entry(f_a, x_CSV, <<>>)>>),
     List(<<Entry(f_b, x_CSV, s_old), Entry(f_a, x_CSV, s_old)>>)}

GptAssets ==
    {Absent, PyNone, List(<<Entry(f_a, x_CSV, d_dose)>>),
     List(<<Entry(f_B, x_CSV, d_dose), Entry(f_a, x_CSV, d_dose), Entry(f_a, x_CSV, s_new)>>),
     List(<<Dict(<<[k |-> "name", v |-> Str(f_a)]>>)>>),
     List(<<Dict(<<[k |-> "file", v |-> Str(f_a)], [k |-> "format", v |-> Str(x_CSV)]>>)>>)}

BbAnswers ==
    {[raises |-> TRUE, ns |-> <<>>],
     [raises |-> FALSE, ns |-> <<[alias |-> s_alias, name |-> f_a]>>]}

DiskAnswers ==
    {<<>>,
     <<[dir |-> s_brick_dir, name |-> f_a]>>,
     <<[dir |-> <<>>, name |-> f_readme], [dir |-> s_brick_dir, name |-> f_b],
       [dir |-> <<>>, name |-> f_a]>>}

StatusAnswers ==
    {[ok |-> FALSE, hits |-> <<>>],
     [ok |-> TRUE, hits |-> <<>>],
     [ok |-> TRUE, hits |-> <<[fn |-> f_a, size |-> s_1KB]>>],
     [ok |-> TRUE, hits |-> <<[fn |-> f_b, size |-> s_1KB], [fn |-> f_B, size |-> s_1KB]>>]}

GptFailures ==
    {[kind |-> "nokey", data |-> PyNone], [kind |-> "apierror", data |-> PyNone],
     [kind |-> "badyaml", data |-> PyNone], [kind |-> "data", data |-> Str(s_new)]}

RemoteAsset(path, fmt) ==
    Dict(<<[k |-> "path", v |-> Str(path)], [k |-> "format", v |-> Str(fmt)],
           [k |-> "description", v |-> Str(d_dose)]>>)

PageAnswers ==
    {[ok |-> FALSE, data |-> <<>>],
     [ok |-> TRUE, data |-> <<>>],
     [ok |-> TRUE, data |-> <<[k |-> "dataset_type", v |-> Str(s_tabular)],
                              [k |-> "license", v |-> Dict(<<[k |-> "name", v |-> Str(s_MIT)]>>)]>>],
     [ok |-> TRUE, data |-> <<[k |-> "license", v |-> PyNone]>>],
     [ok |-> TRUE, data |-> <<[k |-> "assets",
                               v |-> List(<<RemoteAsset(s_brick_dir \o <<"/">> \o f_a, <<>>),
                                            RemoteAsset(s_brick_dir \o <<"/">> \o f_a, x_CSV)>>)]>>],
     [ok |-> TRUE, data |-> <<[k |-> "assets",
                               v |-> List(<<Dict(<<[k |-> "description", v |-> Str(d_dose)]>>)>>)]>>]}

GhAnswers ==
    {[ok |-> TRUE, description |-> Str(s_gh_desc)], [ok |-> TRUE, description |-> PyNone],
     [ok |-> FALSE, description |-> PyNone]}

\* what fetch_status returns: None (no 200), an empty object, a tool, a record
\* with nothing but its name, a full record listing one path twice, a record
\* whose asset has a null format
ApiAnswers ==
    {PyNone,
     Dict(<<>>),
     Dict(<<[k |-> "name", v |-> Str(s_brick)], [k |-> "type", v |-> Str(s_tool)]>>),
     Dict(<<[k |-> "name", v |-> Str(s_brick)]>>),
     Dict(<<[k |-> "description", v |-> Str(s_gh_desc)],
            [k |-> "homepage", v |-> Str(s_homepage)],
            [k |-> "license", v |-> Str(s_MIT)],
            [k |-> "assets",
             v |-> List(<<Dict(<<[k |-> "path", v |-> Str(s_brick_dir \o <<"/">> \o f_a)],
                                 [k |-> "name", v |-> Str(f_a)],
                                 [k |-> "format", v |-> Str(<<"c", "s", "v">>)]>>),
                          Dict(<<[k |-> "path", v |-> Str(s_brick_dir \o <<"/">> \o f_a)],
                                 [k |-> "format", v |-> Str(<<"c", "s", "v">>)]>>)>>)]>>),
     Dict(<<[k |-> "assets",
             v |-> List(<<Dict(<<[k |-> "name", v |-> Str(f_a)],
                                 [k |-> "format", v |-> PyNone]>>)>>)]>>)}

Env(bb, disk, status, gpt, clone, gh, page, api) ==
    [bb |-> bb, disk |-> disk, status |-> status, gpt |-> gpt,
     clone |-> clone, gh |-> gh, page |-> page, api |-> api]

\* the typical answers used where a family varies something else
QuietGpt == [kind |-> "nokey", data |-> PyNone]
BusyPage == CHOOSE pg \in PageAnswers : pg.ok /\ Has(pg.data, "dataset_type")
BusyGh == CHOOSE g \in GhAnswers : g.ok /\ Truthy(g.description)
BusyDisk == CHOOSE d \in DiskAnswers : Len(d) = 1
BusyStatus == CHOOSE s \in StatusAnswers : Len(s.hits) = 1
QuietBb == CHOOSE b \in BbAnswers : b.raises
QuietApi == PyNone

\* stored fields against extracted fields, the assets left to the disk scan
FieldFamily ==
    \E K \in KeySets :
        \E ex \in FieldChoices("stored", K),
           gpt \in {[kind |-> "data", data |-> Dict(MkDict(META_TEMPLATE, cand))] :
                       cand \in FieldChoices("candidate", K)} \cup GptFailures :
            /\ file = Dict(MkDict(FileOrder, ex))
            /\ env = Env(QuietBb, BusyDisk, BusyStatus, gpt, TRUE, BusyGh, BusyPage, QuietApi)

\* stored assets against the four asset providers
AssetFamily ==
    \E ex \in ExAssets, bb \in BbAnswers, disk \in DiskAnswers,
       status \in StatusAnswers, cand \in GptAssets :
        /\ file = Dict(MkDict(<<"assets">>, [k \in {"assets"} |-> ex]))
        /\ env = Env(bb, disk, status,
                     [kind |-> "data",
                      data |-> Dict(MkDict(<<"assets">>, [k \in {"assets"} |-> cand]))],
                     TRUE, BusyGh, BusyPage, QuietApi)

\* real candidates for the fields a freshly written record holds
FreshCandidates ==
    Dict(<<[k |-> "description", v |-> Str(s_new)],
           [k |-> "source", v |-> List(<<Str(s_new)>>)],
           [k |-> "transformations", v |-> Str(s_new)]>>)

\* no file, an empty file or a stored record against auto_meta's providers
AutoFamily ==
    \E f \in {NoFile, PyNone,
               Dict(<<[k |-> "license", v |-> Str(s_old)],
                      [k |-> "assets", v |-> List(<<Entry(f_a, x_CSV, s_old)>>)]>>)},
       disk \in DiskAnswers \ {BusyDisk},
       gpt \in {QuietGpt,
                [kind |-> "data",
                 data |-> FreshCandidates]},
       clone \in BOOLEAN, gh \in GhAnswers, page \in PageAnswers :
        /\ file = f
        /\ env = Env(QuietBb, disk, BusyStatus, gpt, clone, gh, page, QuietApi)

\* no file or a stored record against update_brick_docs' two sources
DocsFamily ==
    \E f \in {NoFile, Dict(<<[k |-> "assets", v |-> List(<<Entry(f_b, x_CSV, s_old)>>)]>>)},
       gpt \in {QuietGpt, [kind |-> "data", data |-> FreshCandidates]},
       clone \in BOOLEAN, gh \in GhAnswers, api \in ApiAnswers :
        /\ file = f
        /\ env = Env(QuietBb, <<>>, BusyStatus, gpt, clone, gh, BusyPage, api)

Init ==
    /\ pc = "idle" /\ arg = <<>> /\ ret = <<>>
    /\ (FieldFamily \/ AssetFamily \/ AutoFamily \/ DocsFamily)
    /\ pass = NoPass
    /\ before = NoFile
    /\ batch = NoBatch

\* this pass repeats the one before it, which ran to its end
Again(script, overwrite) ==
    /\ pass.script = script /\ pass.overwrite = overwrite
    /\ pass.outcome \in {"written", "nochange"}

\* python scripts/Enrich_Meta_Gpt.py --brick <brick> [--overwrite]
EnrichMetaGpt ==
    \E overwrite \in BOOLEAN :
        LET r == enrich(file, env, overwrite)
        IN  /\ file' = r.written
            /\ pass' = [script |-> "gpt", overwrite |-> overwrite,
                        outcome |-> IF r.raised THEN "raised" ELSE "written",
                        changed |-> r.written # file,
                        again |-> Again("gpt", overwrite)]
            /\ before' = file
            /\ UNCHANGED <<pc, arg, ret, env, batch>>

\* python scripts/auto_meta.py, for this brick
AutoMeta ==
    LET r == auto_main(file, env)
    IN  /\ file' = r.written
        /\ pass' = [script |-> "auto", overwrite |-> FALSE,
                    outcome |-> r.outcome, changed |-> r.changed,
                    again |-> Again("auto", FALSE)]
        /\ before' = file
        /\ UNCHANGED <<pc, arg, ret, env, batch>>

\* python scripts/add_meta_stub.py, for this brick
AddMetaStub ==
    LET r == add_meta_stub(file, env)
    IN  /\ file' = r.written
        /\ pass' = [script |-> "stub", overwrite |-> FALSE,
                    outcome |-> r.outcome, changed |-> r.written # file,
                    again |-> Again("stub", FALSE)]
        /\ before' = file
        /\ UNCHANGED <<pc, arg, ret, env, batch>>

\* python scripts/update_brick_docs.py, for this brick
UpdateBrickDocs ==
    LET r == docs_main(file, env)
    IN  /\ file' = r.written
        /\ pass' = [script |-> "docs", overwrite |-> FALSE,
                    outcome |-> r.outcome, changed |-> r.written # file,
                    again |-> Again("docs", FALSE)]
        /\ before' = file
        /\ UNCHANGED <<pc, arg, ret, env, batch>>

Next == EnrichMetaGpt \/ AutoMeta \/ AddMetaStub \/ UpdateBrickDocs

Spec == Init /\ [][Next]_vars

(***************************************************************************)
(* A run of main over several bricks (Enrich_Meta_Gpt.py --all, and        *)
(* auto_meta.py over KEPT).  batch holds                                    *)
(*   script, overwrite   which main runs, and its --overwrite               *)
(*   bricks    per brick: its meta.yaml, its providers' answers, and        *)
(*             whether meta.yaml can be written (FALSE: write_text raises)  *)
(*   start     the meta.yaml of each brick when the run began               *)
(*   next      the brick the loop is at                                     *)
(*   visited   the bricks the loop body was entered for                     *)
(*   status    "running", "ended" (the loop ran out), "raised" (an          *)
(*             exception left main)                                         *)
(***************************************************************************)
BadLicensePage == CHOOSE pg \in PageAnswers : pg.ok /\ GetOr(pg.data, "license", Absent) = PyNone
ApiError == CHOOSE g \in GptFailures : g.kind = "apierror"

BatchBricks ==
    {[file |-> f,
      env |-> Env(QuietBb, BusyDisk, BusyStatus, gpt, TRUE, BusyGh, page, QuietApi),
      writable |-> w] :
        f \in {NoFile, Dict(<<[k |-> "assets", v |-> List(<<Entry(f_b, x_CSV, s_old)>>)]>>)},
        gpt \in {QuietGpt, ApiError},
        page \in {BusyPage, BadLicensePage},
        w \in BOOLEAN}

InitBatch ==
    /\ pc = "idle" /\ arg = <<>> /\ ret = <<>>
    /\ file = NoFile /\ env = NoEnv /\ pass = NoPass /\ before = NoFile
    /\ \E n \in 1..MaxBatch :
          \E bricks \in [1..n -> BatchBricks],
             mode \in {[script |-> "gpt", overwrite |-> FALSE],
                       [script |-> "gpt", overwrite |-> TRUE],
                       [script |-> "auto", overwrite |-> FALSE]} :
              batch = [script |-> mode.script, overwrite |-> mode.overwrite,
                       bricks |-> bricks,
                       start |-> [i \in 1..n |-> bricks[i].file],
                       next |-> 1, visited |-> {}, status |-> "running"]

\* the loop moves on after brick batch.next, whose meta.yaml is now f
Continue(f) ==
    batch' = [batch EXCEPT !.bricks[batch.next].file = f,
                           !.visited = @ \cup {batch.next},
                           !.next = @ + 1,
                           !.status = IF batch.next = Len(batch.bricks)
                                      THEN "ended" ELSE "running"]

\* an exception raised for brick batch.next leaves the loop and main
Propagate ==
    batch' = [batch EXCEPT !.visited = @ \cup {batch.next}, !.status = "raised"]

\* Enrich_Meta_Gpt.main: one turn of `for b in bricks: enrich(b, ...)`
MainEnrichStep ==
    /\ batch.script = "gpt" /\ batch.status = "running"
    /\ LET b == batch.bricks[batch.next]
           r == enrich(b.file, b.env, batch.overwrite)
       IN  IF r.raised \/ ~b.writable THEN Propagate ELSE Continue(r.written)
    /\ UNCHANGED <<pc, arg, ret, file, env, pass, before>>

\* auto_meta.main: one turn of `for repo in KEPT`
MainAutoStep ==
    /\ batch.script = "auto" /\ batch.status = "running"
    /\ LET b == batch.bricks[batch.next]
           r == auto_main(b.file, b.env)
       IN  IF r.outcome = "raised" \/ (r.outcome = "written" /\ ~b.writable)
           THEN Propagate
           ELSE Continue(r.written)
    /\ UNCHANGED <<pc, arg, ret, file, env, pass, before>>

NextBatch == MainEnrichStep \/ MainAutoStep

SpecBatch == InitBatch /\ [][NextBatch]_vars

(***************************************************************************)
(* What the claims speak of                                                 *)
(***************************************************************************)
\* the value document f holds under key k, Absent when it holds none
FieldOf(f, k) ==
    IF f = NoFile \/ ~IsDict(f) THEN Absent ELSE GetOr(f.dict, k, Absent)

\* the candidate the model extraction supplies for key k
Candidate(k) == GetOr(gpt_extract_meta(env).value, k, Absent)

StubOrAbsent(v) == v = Absent \/ is_stub(v)

GptPassDone == pass.script = "gpt" /\ pass.outcome = "written"

(***************************************************************************)
(* C1: with the providers' answers fixed, a pass that repeats the pass     *)
(* before it (same script, same mode) runs to its end and leaves the       *)
(* record exactly as it found it: nothing has changed the second time.     *)
(***************************************************************************)
C1_Idempotent ==
    pass.again =>
        /\ pass.outcome \in {"written", "nochange"}
        /\ file = before
        /\ ~pass.changed

C1_Witness ==
    /\ pass.again /\ GptPassDone /\ pass.overwrite
    /\ FieldOf(file, "transformations") = Str(d_default)
    /\ IsList(FieldOf(file, "assets"))
    /\ Len(FieldOf(file, "assets").list) >= 2
    /\ file = before

\* the four provider lists in the order enrich hands them to merge_assets
ScanOrder ==
    assets_from_bb(env) \o assets_from_disk(env)
    \o Elements(GetOr(gpt_extract_meta(env).value, "assets", List(<<>>)))
    \o assets_from_status(scrape_status(env))

FirstWith(ds, fn) ==
    ds[CHOOSE i \in 1..Len(ds) :
          FileOf(ds[i]) = fn /\ \A j \in 1..(i - 1) : FileOf(ds[j]) # fn]

AssetsRebuilt == GptPassDone /\ (pass.overwrite \/ StubOrAbsent(FieldOf(before, "assets")))

(***************************************************************************)
(* C3: the first occurrence of a `file` wins: when enrich rebuilds the     *)
(* assets, the record's entry for every `file` some provider reports is    *)
(* the first entry with that `file` met when the package registry, the     *)
(* disk scan, the model extraction and the status scrape are scanned in    *)
(* this order, each front to back; nothing else is in the list.            *)
(***************************************************************************)
C3_FirstOccurrenceWins ==
    AssetsRebuilt =>
        LET out == FieldOf(file, "assets").list
        IN  /\ \A fn \in Files(ScanOrder) :
                  \E i \in 1..Len(out) : out[i] = FirstWith(ScanOrder, fn)
            /\ \A i \in 1..Len(out) : out[i] = FirstWith(ScanOrder, FileOf(out[i]))
            /\ Len(out) = Cardinality(Files(ScanOrder))

C3_Witness ==
    /\ AssetsRebuilt
    /\ Len(assets_from_bb(env)) = 1
    /\ Len(assets_from_disk(env)) = 2
    /\ Len(Elements(GetOr(gpt_extract_meta(env).value, "assets", List(<<>>)))) = 3
    /\ Len(assets_from_status(scrape_status(env))) = 2
    /\ Len(FieldOf(file, "assets").list) = 3
    /\ \E i \in 1..3 : FieldOf(file, "assets").list[i] = Entry(f_a, x_CSV, replace(s_alias, "_", " "))

(***************************************************************************)
(* C5: a fill-missing pass (overwrite = False) leaves every non-asset      *)
(* field whose stored value is not a stub as it was, whatever candidate    *)
(* the provider supplies.                                                   *)
(***************************************************************************)
C5_FillKeepsRealValues ==
    (GptPassDone /\ ~pass.overwrite) =>
        \A k \in FieldKeys :
            ~StubOrAbsent(FieldOf(before, k)) => FieldOf(file, k) = FieldOf(before, k)

C5_Witness ==
    /\ GptPassDone /\ ~pass.overwrite
    /\ \E k \in FieldKeys :
          /\ ~StubOrAbsent(FieldOf(before, k))
          /\ ~StubOrAbsent(Candidate(k))
          /\ Candidate(k) # FieldOf(before, k)
          /\ FieldOf(file, k) = FieldOf(before, k)

(***************************************************************************)
(* C6: an overwrite pass (overwrite = True) sets every non-asset field for *)
(* which the provider supplies a candidate that is not a stub to that      *)
(* candidate, whatever the stored value was.                                *)
(***************************************************************************)
C6_OverwriteTakesCandidate ==
    (GptPassDone /\ pass.overwrite) =>
        \A k \in FieldKeys :
            ~StubOrAbsent(Candidate(k)) => FieldOf(file, k) = Candidate(k)

C6_Witness ==
    /\ GptPassDone /\ pass.overwrite
    /\ \E k \in FieldKeys :
          /\ ~StubOrAbsent(FieldOf(before, k))
          /\ ~StubOrAbsent(Candidate(k))
          /\ Candidate(k) # FieldOf(before, k)
          /\ FieldOf(file, k) = Candidate(k)

(***************************************************************************)
(* C7: a candidate that is a stub never replaces the stored value: in      *)
(* both modes, a non-asset field whose candidate is a stub is after the    *)
(* pass what it was before (for `transformations`, which the default rule  *)
(* may fill, this is stated of stored values that are not stubs).          *)
(***************************************************************************)
C7_StubCandidateNeverReplaces ==
    GptPassDone =>
        \A k \in FieldKeys :
            (/\ Candidate(k) # Absent /\ is_stub(Candidate(k))
             /\ (k = "transformations" => ~StubOrAbsent(FieldOf(before, k))))
            => FieldOf(file, k) = FieldOf(before, k)

(***************************************************************************)
(* C8: after every completed pass of enrich, in either mode,               *)
(* `transformations` is present and is not a stub; it is the stored value, *)
(* the candidate or the default "None - preserved as-is", and it is the    *)
(* default whenever neither the stored value nor the candidate is          *)
(* anything but a stub.                                                     *)
(***************************************************************************)
C8_TransformationsNeverStub ==
    GptPassDone =>
        LET tr == FieldOf(file, "transformations")
            was == FieldOf(before, "transformations")
            cand == Candidate("transformations")
        IN  /\ tr # Absent
            /\ ~is_stub(tr)
            /\ tr \in {was, cand, Str(d_default)}
            /\ (StubOrAbsent(was) /\ StubOrAbsent(cand)) => tr = Str(d_default)

C8_Witness ==
    /\ GptPassDone
    /\ FieldOf(before, "transformations") = Str(s_TODO_fill)
    /\ Candidate("transformations") = Absent
    /\ FieldOf(file, "transformations") = Str(d_default)

UsableAssets(v) ==
    IsList(v) /\ \A i \in 1..Len(v.list) : IsDict(v.list[i]) /\ Has(v.list[i].dict, "file")

GptProviderFailed ==
    \/ env.bb.raises
    \/ ~env.status.ok
    \/ env.gpt.kind \in {"apierror", "badyaml"}
    \/ env.gpt.kind = "data" /\ ~IsDict(env.gpt.data)
    \/ env.gpt.kind = "data" /\ IsDict(env.gpt.data)
       /\ Has(env.gpt.data.dict, "assets") /\ ~UsableAssets(Get(env.gpt.data.dict, "assets"))

(***************************************************************************)
(* C10: a provider that fails or returns unusable data contributes an      *)
(* empty fragment: the pass still runs to its end and the record is        *)
(* written.                                                                 *)
(***************************************************************************)
C10_ProviderFailureIsolated ==
    (pass.script = "gpt" /\ GptProviderFailed) =>
        (pass.outcome = "written" /\ IsDict(file))

(***************************************************************************)
(* C11: in a run of main over several bricks, an error raised for one      *)
(* brick does not keep the loop from the bricks after it: when the run is  *)
(* over, the loop body was entered for every brick, and a brick it was not *)
(* entered for holds the meta.yaml it started with.                         *)
(***************************************************************************)
C11_BatchErrorIsolated ==
    batch.status # "running" =>
        /\ batch.visited = 1..Len(batch.bricks)
        /\ \A i \in 1..Len(batch.bricks) :
              i \notin batch.visited => batch.bricks[i].file = batch.start[i]

\* entry d has no description to speak of
LacksDescription(d) == ~Truthy(GetOr(d.dict, "description", PyNone))

\* entry d carries a size annotation, "Auto-detected file (<size>)"
SizeAnnotated(d) ==
    /\ IsStr(GetOr(d.dict, "description", PyNone))
    /\ startswith(Get(d.dict, "description").str, d_auto_open)

\* the <size> of a size-annotated entry
SizeOf(d) ==
    LET desc == Get(d.dict, "description").str
    IN  SubSeq(desc, Len(d_auto_open) + 1, Len(desc) - 1)

\* t in s, on str
Contains(s, t) == \E i \in 0..(Len(s) - Len(t)) : SubSeq(s, i + 1, i + Len(t)) = t

(***************************************************************************)
(* C12: when two providers report the same `file`, the record's entry for  *)
(* it has the `file` and `format` of the entry of higher precedence, and   *)
(* if that entry has no description while the entry of lower precedence    *)
(* carries a size annotation, the record's description mentions that size. *)
(***************************************************************************)
C12_DescriptionRefined ==
    AssetsRebuilt =>
        LET out == FieldOf(file, "assets").list
        IN  \A i, j \in 1..Len(ScanOrder) :
                (/\ i < j
                 /\ FileOf(ScanOrder[i]) = FileOf(ScanOrder[j])
                 /\ ScanOrder[i] = FirstWith(ScanOrder, FileOf(ScanOrder[i])))
                => \E o \in 1..Len(out) :
                      /\ FileOf(out[o]) = FileOf(ScanOrder[i])
                      /\ GetOr(out[o].dict, "format", Absent)
                            = GetOr(ScanOrder[i].dict, "format", Absent)
                      /\ (LacksDescription(ScanOrder[i]) /\ SizeAnnotated(ScanOrder[j]))
                         => LET desc == GetOr(out[o].dict, "description", PyNone)
                            IN  IsStr(desc) /\ Contains(desc.str, SizeOf(ScanOrder[j]))

\* the `file` values of the record's assets
RecordFiles(f) ==
    LET a == FieldOf(f, "assets")
    IN  IF IsList(a)
        THEN {FileOf(a.list[i]) :
                 i \in {n \in 1..Len(a.list) :
                           IsDict(a.list[n]) /\ Has(a.list[n].dict, "file")}}
        ELSE {}

\* the model extraction handed enrich assets that merge_assets can scan
ExtractionUsable ==
    UsableAssets(GetOr(gpt_extract_meta(env).value, "assets", List(<<>>)))

(***************************************************************************)
(* C13: after a completed pass of enrich, in fill-missing mode as in       *)
(* overwrite mode, every `file` a provider reports is a `file` of the      *)
(* record's assets, also when the stored record held a real asset list.    *)
(***************************************************************************)
C13_AssetsMergedInEveryMode ==
    (GptPassDone /\ ExtractionUsable) =>
        \A fn \in Files(ScanOrder) : fn \in RecordFiles(file)

(***************************************************************************)
(* C14: an overwrite pass in which every provider returns an empty asset   *)
(* list leaves the assets the record held as they were.                     *)
(***************************************************************************)
C14_EmptyProvidersKeepAssets ==
    (/\ GptPassDone /\ pass.overwrite /\ ExtractionUsable
     /\ ScanOrder = <<>>
     /\ FieldOf(before, "assets") # Absent)
    => FieldOf(file, "assets") = FieldOf(before, "assets")

(***************************************************************************)
(* C15: whatever passes of Enrich_Meta_Gpt.py (either mode), auto_meta.py  *)
(* and update_brick_docs.py have run, no two entries of the assets of the  *)
(* record in meta.yaml have the same `file`.                                *)
(***************************************************************************)
C15_RecordAssetUniqueness ==
    LET a == FieldOf(file, "assets")
    IN  IsList(a) =>
            \A i, j \in 1..Len(a.list) :
                (/\ i < j
                 /\ IsDict(a.list[i]) /\ Has(a.list[i].dict, "file")
                 /\ IsDict(a.list[j]) /\ Has(a.list[j].dict, "file"))
                => FileOf(a.list[i]) # FileOf(a.list[j])

\* the placeholder a record-creating script writes under key k when it has
\* nothing real: STUB's value, make_stub's fallback, build_meta's fallback
Placeholders(k) ==
    {Get(STUB.dict, k),
     Get(make_stub([gh |-> [ok |-> TRUE, description |-> PyNone], disk |-> <<>>]).dict, k),
     Get(build_meta(<<>>, <<>>).meta.dict, k)}

PlaceholderKeys == {"description", "source", "transformations", "assets"}

\* the last pass created meta.yaml
RecordCreated ==
    /\ pass.outcome = "written"
    /\ before = NoFile
    /\ pass.script \in {"stub", "auto", "docs"}

(***************************************************************************)
(* C16: a field of a freshly created record that holds only the creating   *)
(* script's placeholder is a stub for is_stub, and a later fill-missing    *)
(* pass of enrich replaces such a placeholder by the real candidate a      *)
(* provider supplies.                                                       *)
(***************************************************************************)
C16_PlaceholdersAreStubs ==
    /\ RecordCreated =>
          \A k \in PlaceholderKeys :
              FieldOf(file, k) \in Placeholders(k) => is_stub(FieldOf(file, k))
    /\ (GptPassDone /\ ~pass.overwrite) =>
          \A k \in PlaceholderKeys \ {"assets"} :
              (FieldOf(before, k) \in Placeholders(k) /\ ~StubOrAbsent(Candidate(k)))
              => FieldOf(file, k) = Candidate(k)

(***************************************************************************)
(* C17: a pass of auto_meta.py or of enrich over a brick without meta.yaml *)
(* that runs to its end leaves a meta.yaml behind, also when enrichment    *)
(* added nothing to the record it created.                                  *)
(***************************************************************************)
C17_CreatedRecordWritten ==
    (/\ pass.script \in {"auto", "gpt"}
     /\ before = NoFile
     /\ pass.outcome \in {"written", "nochange"})
    => file # NoFile

====
